---------------------------- MODULE Spec2Model ----------------------------
(***************************************************************************)
(* Model of the location core of loopin-app:                               *)
(*   circleback/src/services/locationScheduler.ts  (LocationScheduler)     *)
(*   circleback/src/services/googleMapsService.ts  (GoogleMapsService)     *)
(*                                                                         *)
(* Instants are whole minutes counted from local midnight of day 0 (a Date *)
(* is its getTime() divided by 60000; the clock has no DST shift).  The    *)
(* JavaScript event loop runs one task at a time, so every action below is *)
(* one task: a call of a public method, the callback of a timer, or the    *)
(* settling of an awaited platform/network request together with the       *)
(* synchronous continuations that follow it.                               *)
(***************************************************************************)
EXTENDS Integers, Sequences, FiniteSets, TLC

VARIABLES
  now,                   \* the wall clock read by new Date()
  isActive,              \* LocationScheduler.isActive
  intervals,             \* LocationScheduler.intervals: retained timer handles
  pending,               \* the runtime's table of pending setTimeout timers
  onLocationUpdate,      \* LocationScheduler.onLocationUpdate (<<>> = undefined)
  onLocationError,       \* LocationScheduler.onLocationError  (<<>> = undefined)
  lastUpdateHistory,     \* LocationScheduler.lastUpdateHistory, head = newest
  locationUpdateHistory, \* localStorage item 'locationUpdateHistory'
  lastKnownLocation,     \* localStorage item 'lastKnownLocation'
  isInitialized,         \* GoogleMapsService.isInitialized
  runs,                  \* pipeline executions whose awaited request is open
  launched,              \* number of pipeline executions begun so far
  timerSeq,              \* number of setTimeout calls so far (handle ids)
  last                   \* what the most recent task did (observation record)

vars == <<now, isActive, intervals, pending, onLocationUpdate, onLocationError,
          lastUpdateHistory, locationUpdateHistory, lastKnownLocation,
          isInitialized, runs, launched, timerSeq, last>>

----------------------------------------------------------------------------
(* Bounds of the model *)

\* days after day 0 that the clock may reach
MaxDay == 0

\* pipeline executions that may be begun in one behaviour
MaxRuns == 2

----------------------------------------------------------------------------
(* Program constants *)

\* googleMapsService.ts:235  "hoursDiff < 12"
FreshHours == 12

\* locationScheduler.ts:26
maxHistorySize == 10

\* googleMapsService.ts:234 divides milliseconds by (1000 * 60 * 60)
MinutesPerHour == 60

DayMinutes == 24 * MinutesPerHour

\* locationScheduler.ts:17-21
scheduledTimes ==
  << [hour |-> 8,  minute |-> 0, label |-> "Morning"],
     [hour |-> 14, minute |-> 0, label |-> "Afternoon"],
     [hour |-> 20, minute |-> 0, label |-> "Evening"] >>

\* The minutes of a day at which the model lets the clock stand: 07:00,
\* 08:00 and 20:00.  Snapshots aged 1h, 11h, exactly 12h and 13h all occur;
\* the Morning and Evening timers can fire on time, and every timer can fire
\* late (the Afternoon timer always does), as when the device sleeps.
DayMarks == {420, 480, 1200}

Instants == {d * DayMinutes + m : d \in 0..MaxDay, m \in DayMarks}

FirstInstant == CHOOSE t \in Instants : \A u \in Instants : t <= u

\* The callback pairs a caller passes to start() (useLocation passes both).
Callbacks == {"cb1"}

\* navigator.geolocation yields one position in the model
Coordinates == { [latitude |-> 18, longitude |-> 73] }

Range(s) == {s[i] : i \in 1..Len(s)}

RemoveAt(s, i) == SubSeq(s, 1, i - 1) \o SubSeq(s, i + 1, Len(s))

----------------------------------------------------------------------------
(* GoogleMapsService: geocoding *)

\* Responses of the primary provider (first result of geocoder.geocode).
PrimaryResponses ==
  { [types |-> {"premise"},
     address_components |->
       << [long_name |-> "Pune",        types |-> {"locality", "political"}],
          [long_name |-> "Maharashtra", types |-> {"administrative_area_level_1"}],
          [long_name |-> "India",       types |-> {"country"}] >>] }

\* googleMapsService.ts:85-98: the loop over address_components
RECURSIVE ExtractCityCountry(_, _, _, _)
ExtractCityCountry(components, i, city, country) ==
  IF i > Len(components) THEN [city |-> city, country |-> country]
  ELSE LET types == components[i].types
           name  == components[i].long_name
       IN  IF "locality" \in types
             THEN ExtractCityCountry(components, i + 1, name, country)
           ELSE IF "administrative_area_level_1" \in types /\ city = "Unknown City"
             THEN ExtractCityCountry(components, i + 1, name, country)
           ELSE IF "country" \in types
             THEN ExtractCityCountry(components, i + 1, city, name)
           ELSE ExtractCityCountry(components, i + 1, city, country)

\* mutant: low only for a result carrying no tag but the second-level one
ClassifyAccuracyOnlyLevel2(types) ==
  IF "street_address" \in types \/ "premise" \in types THEN "high"
  ELSE IF types = {"administrative_area_level_2"} THEN "low"
  ELSE "medium"

\* googleMapsService.ts:100-106
ClassifyAccuracy(types) ==
  IF "street_address" \in types \/ "premise" \in types THEN "high"
  ELSE IF "administrative_area_level_2" \in types THEN "low"
  ELSE "medium"

\* googleMapsService.ts:81-115: CityInfo built from the primary result
CityInfoFromPrimary(result) ==
  LET cc == ExtractCityCountry(result.address_components, 1,
                               "Unknown City", "Unknown Country")
  IN  [city |-> cc.city, country |-> cc.country,
       accuracy |-> ClassifyAccuracy(result.types)]

\* Bodies of the secondary provider (Nominatim); "" is an absent field.
SecondaryResponses ==
  { [city |-> "", town |-> "Lonavala", village |-> "", municipality |-> "",
     country |-> "India"] }

\* googleMapsService.ts:138-151
CityInfoFromSecondary(address) ==
  [city |-> IF address.city # "" THEN address.city
            ELSE IF address.town # "" THEN address.town
            ELSE IF address.village # "" THEN address.village
            ELSE IF address.municipality # "" THEN address.municipality
            ELSE "Unknown City",
   country |-> IF address.country # "" THEN address.country ELSE "Unknown Country",
   accuracy |-> "medium"]

\* googleMapsService.ts:154-158
UnknownCityInfo ==
  [city |-> "Unknown City", country |-> "Unknown Country", accuracy |-> "low"]

----------------------------------------------------------------------------
(* GoogleMapsService: the snapshot cache *)

\* Date.prototype.toJSON, applied by JSON.stringify
ToISOString(t) == <<"ISO", t>>

\* new Date(isoString)
NewDate(s) == s[2]

\* googleMapsService.ts:219-228: the value cacheLocation stores
CacheEntry(location) ==
  [coordinates |-> location.coordinates, cityInfo |-> location.cityInfo,
   timestamp |-> ToISOString(location.timestamp), source |-> "cached"]

\* mutant: cacheLocation keeps the city of the entry it replaces
cacheLocationMerging(location, stored) ==
  IF lastKnownLocation = <<>> THEN << CacheEntry(location) >>
  ELSE << [CacheEntry(location) EXCEPT
             !.cityInfo = lastKnownLocation[1].cityInfo] >>

\* mutant: cacheLocation never replaces the entry
cacheLocationKeepsOld(location, stored) == lastKnownLocation

\* googleMapsService.ts:219-228: localStorage after cacheLocation; when
\* setItem throws (stored = FALSE) the error is swallowed and the previous
\* entry stays
cacheLocation(location, stored) ==
  IF stored THEN << CacheEntry(location) >> ELSE lastKnownLocation

\* googleMapsService.ts:201-216: <<>> is null
getCachedLocation ==
  IF lastKnownLocation = <<>> THEN <<>>
  ELSE LET parsed == lastKnownLocation[1]
       IN  << [coordinates |-> parsed.coordinates, cityInfo |-> parsed.cityInfo,
               timestamp |-> NewDate(parsed.timestamp), source |-> "cached"] >>

\* mutant: the boundary of the freshness window is included
isCachedLocationFreshInclusive(cachedLocation) ==
  (now - cachedLocation.timestamp) \div MinutesPerHour <= FreshHours

\* googleMapsService.ts:231-236
isCachedLocationFresh(cachedLocation) ==
  LET diff == now - cachedLocation.timestamp
      \* hoursDiff is a real quotient; hoursDiff < 12 iff its floor is < 12
      hoursDiff == diff \div MinutesPerHour
  IN  hoursDiff < FreshHours

\* mutant: a live snapshot is handed out marked as cached
LiveLocationMarkedCached(coords, cityInfo) ==
  [coordinates |-> coords, cityInfo |-> cityInfo, timestamp |-> now,
   source |-> "cached"]

\* googleMapsService.ts:169-174
LiveLocation(coords, cityInfo) ==
  [coordinates |-> coords, cityInfo |-> cityInfo, timestamp |-> now,
   source |-> "live"]

----------------------------------------------------------------------------
(* LocationScheduler: history *)

\* JSON.stringify of one LocationUpdate (Dates become ISO strings)
StringifyUpdate(u) ==
  [timestamp |-> ToISOString(u.timestamp),
   location  |-> IF u.location = <<>> THEN <<>>
                 ELSE << [u.location[1] EXCEPT
                            !.timestamp = ToISOString(u.location[1].timestamp)] >>,
   success   |-> u.success,
   error     |-> u.error]

\* locationScheduler.ts:167-173
saveUpdateHistory(history) ==
  << [k \in 1..Len(history) |-> StringifyUpdate(history[k])] >>

\* mutant: the history is cut one record too late
recordUpdateOffByOne(location, success, error) ==
  LET update == [timestamp |-> now, location |-> location,
                 success |-> success, error |-> error]
      unshifted == <<update>> \o lastUpdateHistory
  IN  IF Len(unshifted) > maxHistorySize + 1
        THEN SubSeq(unshifted, 1, maxHistorySize + 1)
        ELSE unshifted

\* locationScheduler.ts:148-161: the history after recordUpdate; a null
\* location is stored as the empty object (here <<>>)
recordUpdate(location, success, error) ==
  LET update == [timestamp |-> now, location |-> location,
                 success |-> success, error |-> error]
      unshifted == <<update>> \o lastUpdateHistory
  IN  IF Len(unshifted) > maxHistorySize
        THEN SubSeq(unshifted, 1, maxHistorySize)
        ELSE unshifted

\* locationScheduler.ts:233: the index found by
\* find(update => update.success && update.location), 0 if none; location
\* is an object in every record ({} after a failure) and so always truthy
RECURSIVE FindSuccessful(_, _)
FindSuccessful(history, k) ==
  IF k > Len(history) THEN 0
  ELSE IF history[k].success THEN k
  ELSE FindSuccessful(history, k + 1)

\* mutant: the history is consulted before the cache
getCurrentBestLocationHistoryFirst ==
  LET k == FindSuccessful(lastUpdateHistory, 1)
  IN  IF k > 0 THEN lastUpdateHistory[k].location ELSE getCachedLocation

\* locationScheduler.ts:224-238: <<>> is null
getCurrentBestLocation ==
  LET cachedLocation == getCachedLocation
      k == FindSuccessful(lastUpdateHistory, 1)
  IN  IF cachedLocation # <<>> THEN cachedLocation
      ELSE IF k > 0 THEN lastUpdateHistory[k].location
      ELSE <<>>

----------------------------------------------------------------------------
(* Observation of the most recent task *)

\* a task that settles no pipeline execution is observed as NoEvent, except
\* a start() that found the scheduler active, observed with the callback it
\* was given
Event(op) ==
  [op |-> op, kind |-> "", label |-> "", cause |-> "", cacheBefore |-> <<>>,
   calls |-> <<>>, result |-> "none", value |-> <<>>, message |-> <<>>,
   primary |-> <<>>, secondary |-> <<>>, effects |-> <<>>,
   callback |-> <<>>]

NoEvent == Event("none")

\* what the providers answered in a settled execution: the first result of
\* geocoder.geocode and the address of the Nominatim body, <<>> if none
Answer(primary, secondary) == [primary |-> primary, secondary |-> secondary]

\* mutant: a result that arrives after stop() is dropped
UpdateCallWhileActive(location) ==
  IF onLocationUpdate = <<>> \/ ~isActive THEN <<>>
  ELSE << [fn |-> "onLocationUpdate", cb |-> onLocationUpdate[1],
           location |-> <<location>>, message |-> <<>>] >>

\* an invocation of this.onLocationUpdate, if registered
UpdateCall(location) ==
  IF onLocationUpdate = <<>> THEN <<>>
  ELSE << [fn |-> "onLocationUpdate", cb |-> onLocationUpdate[1],
           location |-> <<location>>, message |-> <<>>] >>

\* mutant: the callback is given a fixed text instead of the error message
ErrorCallGeneric(message) ==
  IF onLocationError = <<>> THEN <<>>
  ELSE << [fn |-> "onLocationError", cb |-> onLocationError[1],
           location |-> <<>>, message |-> << <<"Location update failed">> >>] >>

\* an invocation of this.onLocationError, if registered
ErrorCall(message) ==
  IF onLocationError = <<>> THEN <<>>
  ELSE << [fn |-> "onLocationError", cb |-> onLocationError[1],
           location |-> <<>>, message |-> <<message>>] >>

\* the functions called by a list of invocations, in order
CallNames(calls) == [k \in 1..Len(calls) |-> calls[k].fn]

\* mutant: the callback is notified before the cache and history are written
LiveEffectsNotifyFirst(calls) ==
  CallNames(calls) \o <<"cacheLocation", "recordUpdate">>

\* locationScheduler.ts:101-111 and 196-203: what a continuation does with a
\* live location, in the order of its statements
LiveEffects(calls) == <<"cacheLocation", "recordUpdate">> \o CallNames(calls)

\* locationScheduler.ts:129-132, 140-143 and 214-217: a record, then the
\* callback
RecordEffects(calls) == <<"recordUpdate">> \o CallNames(calls)

\* error instanceof Error ? error.message : 'Unknown error'
ErrorDetail(error) == IF error.isError THEN error.message ELSE "Unknown error"

\* navigator.geolocation rejects with a GeolocationPositionError, which is
\* not an instance of Error
PositionError ==
  [cause |-> "position", isError |-> FALSE, message |-> "Timeout expired"]

\* googleMapsService.ts:53
InitializeError ==
  [cause |-> "init", isError |-> TRUE,
   message |-> "Failed to initialize Google Maps service"]

----------------------------------------------------------------------------
(* LocationScheduler: timers *)

\* mutant: a slot whose minute has just begun still counts as today's
NextOccurrenceAtOrAfter(time, t) ==
  LET midnight == (t \div DayMinutes) * DayMinutes
      scheduledTime == midnight + time.hour * MinutesPerHour + time.minute
  IN  IF scheduledTime < t THEN scheduledTime + DayMinutes ELSE scheduledTime

\* locationScheduler.ts:69-76 and 269-275: the next occurrence of a slot
NextOccurrence(time, t) ==
  LET midnight == (t \div DayMinutes) * DayMinutes
      scheduledTime == midnight + time.hour * MinutesPerHour + time.minute
  IN  IF scheduledTime <= t THEN scheduledTime + DayMinutes ELSE scheduledTime

\* mutant: the occurrence of today is returned even when it has passed
getNextUpdateTimesOfToday ==
  [k \in 1..Len(scheduledTimes) |->
     [label |-> scheduledTimes[k].label,
      time  |-> (now \div DayMinutes) * DayMinutes
                  + scheduledTimes[k].hour * MinutesPerHour
                  + scheduledTimes[k].minute]]

\* locationScheduler.ts:265-282
getNextUpdateTimes ==
  [k \in 1..Len(scheduledTimes) |->
     [label |-> scheduledTimes[k].label,
      time  |-> NextOccurrence(scheduledTimes[k], now)]]

\* mutant: the timer is armed one day after the instant of arming
NewHandleADayFromNow(k, id) ==
  [id |-> id, slot |-> k, at |-> now + DayMinutes]

\* locationScheduler.ts:82-87: the handle setTimeout returns for slot k
NewHandle(k, id) ==
  [id |-> id, slot |-> k, at |-> NextOccurrence(scheduledTimes[k], now)]

NewRun(kind, label) ==
  [kind |-> kind, label |-> label, phase |-> "position", coords |-> <<>>]

----------------------------------------------------------------------------
(* LocationScheduler: the pipeline continuations *)

\* mutant: the freshness test of line 119 is left out
FallbackAllowedAnyAge(cachedLocation) == cachedLocation # <<>>

\* locationScheduler.ts:119: the cached location may stand in for a live one
FallbackAllowed(cachedLocation) ==
  cachedLocation # <<>> /\ isCachedLocationFresh(cachedLocation[1])

\* mutant: the fallback serves the cached snapshot with its old timestamp
RestampedKeepsTimestamp(cachedLocation) ==
  [cachedLocation EXCEPT !.source = "cached"]

\* locationScheduler.ts:123-127
Restamped(cachedLocation) ==
  [cachedLocation EXCEPT !.timestamp = now, !.source = "cached"]

\* locationScheduler.ts:136
ScheduledErrorMessage(label, error) ==
  <<"Failed to get ", label, " location: ", ErrorDetail(error)>>

\* locationScheduler.ts:212
ManualErrorMessage(error) ==
  <<"Manual location update failed: ", ErrorDetail(error)>>

\* locationScheduler.ts:98-111: tryLocationUpdate after getCurrentLocation
\* resolved with location
TryLocationUpdateResolved(i, location, answer, stored) ==
  /\ lastKnownLocation' = cacheLocation(location, stored)
  /\ lastUpdateHistory' = recordUpdate(<<location>>, TRUE, <<>>)
  /\ locationUpdateHistory' = saveUpdateHistory(lastUpdateHistory')
  /\ last' = [Event("settle") EXCEPT
                !.kind = runs[i].kind, !.label = runs[i].label,
                !.cacheBefore = getCachedLocation,
                !.calls = UpdateCall(location),
                !.effects = LiveEffects(UpdateCall(location)),
                !.primary = answer.primary, !.secondary = answer.secondary]

\* mutant: the served fallback is written back to the cache with its new
\* timestamp
TryLocationUpdateRejectedRefreshing(i, error) ==
  LET cachedLocation == getCachedLocation
      observed == [Event("settle") EXCEPT
                     !.kind = runs[i].kind, !.label = runs[i].label,
                     !.cause = error.cause, !.cacheBefore = cachedLocation]
  IN  IF FallbackAllowed(cachedLocation)
        THEN LET updatedCachedLocation == Restamped(cachedLocation[1])
             IN  /\ lastUpdateHistory' =
                      recordUpdate(<<updatedCachedLocation>>, TRUE, <<>>)
                 /\ locationUpdateHistory' = saveUpdateHistory(lastUpdateHistory')
                 /\ last' = [observed EXCEPT
                               !.calls = UpdateCall(updatedCachedLocation),
                               !.effects =
                                 RecordEffects(UpdateCall(updatedCachedLocation))]
                 /\ lastKnownLocation' = cacheLocation(updatedCachedLocation, TRUE)
        ELSE LET errorMessage == ScheduledErrorMessage(runs[i].label, error)
             IN  /\ lastUpdateHistory' = recordUpdate(<<>>, FALSE, <<errorMessage>>)
                 /\ locationUpdateHistory' = saveUpdateHistory(lastUpdateHistory')
                 /\ last' = [observed EXCEPT
                               !.calls = ErrorCall(errorMessage),
                               !.effects = RecordEffects(ErrorCall(errorMessage)),
                               !.message = <<errorMessage>>]
                 /\ UNCHANGED lastKnownLocation

\* locationScheduler.ts:113-145: tryLocationUpdate after getCurrentLocation
\* rejected with error
TryLocationUpdateRejected(i, error) ==
  LET cachedLocation == getCachedLocation
      observed == [Event("settle") EXCEPT
                     !.kind = runs[i].kind, !.label = runs[i].label,
                     !.cause = error.cause, !.cacheBefore = cachedLocation]
  IN  IF FallbackAllowed(cachedLocation)
        THEN LET updatedCachedLocation == Restamped(cachedLocation[1])
             IN  /\ lastUpdateHistory' =
                      recordUpdate(<<updatedCachedLocation>>, TRUE, <<>>)
                 /\ locationUpdateHistory' = saveUpdateHistory(lastUpdateHistory')
                 /\ last' = [observed EXCEPT
                               !.calls = UpdateCall(updatedCachedLocation),
                               !.effects =
                                 RecordEffects(UpdateCall(updatedCachedLocation))]
                 /\ UNCHANGED lastKnownLocation
        ELSE LET errorMessage == ScheduledErrorMessage(runs[i].label, error)
             IN  /\ lastUpdateHistory' = recordUpdate(<<>>, FALSE, <<errorMessage>>)
                 /\ locationUpdateHistory' = saveUpdateHistory(lastUpdateHistory')
                 /\ last' = [observed EXCEPT
                               !.calls = ErrorCall(errorMessage),
                               !.effects = RecordEffects(ErrorCall(errorMessage)),
                               !.message = <<errorMessage>>]
                 /\ UNCHANGED lastKnownLocation

\* locationScheduler.ts:195-203: forceUpdate after getCurrentLocation
\* resolved with location
ForceUpdateResolved(i, location, answer, stored) ==
  /\ lastKnownLocation' = cacheLocation(location, stored)
  /\ lastUpdateHistory' = recordUpdate(<<location>>, TRUE, <<>>)
  /\ locationUpdateHistory' = saveUpdateHistory(lastUpdateHistory')
  /\ last' = [Event("settle") EXCEPT
                !.kind = runs[i].kind, !.label = runs[i].label,
                !.cacheBefore = getCachedLocation,
                !.calls = UpdateCall(location),
                !.result = "returned", !.value = <<location>>,
                !.effects = LiveEffects(UpdateCall(location)),
                !.primary = answer.primary, !.secondary = answer.secondary]

\* locationScheduler.ts:204-220: forceUpdate after getCurrentLocation
\* rejected with error
ForceUpdateRejected(i, error) ==
  LET cachedLocation == getCachedLocation
      observed == [Event("settle") EXCEPT
                     !.kind = runs[i].kind, !.label = runs[i].label,
                     !.cause = error.cause, !.cacheBefore = cachedLocation]
  IN  IF cachedLocation # <<>>
        THEN /\ last' = [observed EXCEPT
                           !.result = "returned", !.value = cachedLocation]
             /\ UNCHANGED <<lastKnownLocation, lastUpdateHistory,
                            locationUpdateHistory>>
        ELSE LET errorMessage == ManualErrorMessage(error)
             IN  /\ lastUpdateHistory' = recordUpdate(<<>>, FALSE, <<errorMessage>>)
                 /\ locationUpdateHistory' = saveUpdateHistory(lastUpdateHistory')
                 /\ last' = [observed EXCEPT
                               !.calls = ErrorCall(errorMessage),
                               !.effects = RecordEffects(ErrorCall(errorMessage)),
                               !.result = "threw",
                               !.message = <<errorMessage>>]
                 /\ UNCHANGED lastKnownLocation

\* googleMapsService.ts:169-174 then the caller's continuation: execution i
\* ends with a live location; stored tells whether localStorage accepts the
\* cache entry
ResolveStoring(i, cityInfo, answer, stored) ==
  LET location == LiveLocation(runs[i].coords[1], cityInfo)
  IN  /\ IF runs[i].kind = "scheduled"
           THEN TryLocationUpdateResolved(i, location, answer, stored)
           ELSE ForceUpdateResolved(i, location, answer, stored)
      /\ runs' = RemoveAt(runs, i)
      /\ UNCHANGED <<now, isActive, intervals, pending, onLocationUpdate,
                     onLocationError, launched, timerSeq>>

\* the same with a localStorage that accepts the cache entry
Resolve(i, cityInfo, answer) == ResolveStoring(i, cityInfo, answer, TRUE)

\* googleMapsService.ts:175-178 then the caller's catch: execution i ends
\* with getCurrentLocation throwing error
Reject(i, error) ==
  /\ IF runs[i].kind = "scheduled"
       THEN TryLocationUpdateRejected(i, error)
       ELSE ForceUpdateRejected(i, error)
  /\ runs' = RemoveAt(runs, i)
  /\ UNCHANGED <<now, isActive, intervals, pending, onLocationUpdate,
                 onLocationError, launched, timerSeq>>

----------------------------------------------------------------------------
(* Initial state: a first launch, nothing persisted, scheduler constructed *)

Constructed ==
  /\ isActive = FALSE
  /\ intervals = <<>>
  /\ pending = {}
  /\ onLocationUpdate = <<>>
  /\ onLocationError = <<>>
  /\ lastUpdateHistory = <<>>
  /\ locationUpdateHistory = <<>>
  /\ lastKnownLocation = <<>>
  /\ isInitialized = FALSE
  /\ runs = <<>>
  /\ launched = 0
  /\ timerSeq = 0
  /\ last = NoEvent

\* the application is opened at the first instant of the model
Init ==
  /\ now = FirstInstant
  /\ Constructed

----------------------------------------------------------------------------
(* LocationScheduler: public operations and the timer callback *)

\* mutant: start() without its idempotency guard
NeverActive == FALSE

\* mutant: start() returns early only while an execution is in flight
ActiveAndBusy == isActive /\ runs # <<>>

\* locationScheduler.ts:37-40: the guard of start()
AlreadyActive == isActive

\* mutant: start() arms the timers and waits for the first slot
StartWithinArmingOnly(cb, budget) ==
  IF AlreadyActive
    THEN /\ last' = [Event("start") EXCEPT !.callback = <<cb>>]
         /\ UNCHANGED <<now, isActive, intervals, pending, onLocationUpdate,
                        onLocationError, lastUpdateHistory,
                        locationUpdateHistory, lastKnownLocation,
                        isInitialized, runs, launched, timerSeq>>
    ELSE LET n == Len(scheduledTimes)
             armed == [k \in 1..n |-> NewHandle(k, timerSeq + k)]
         IN  /\ launched < budget
             /\ onLocationUpdate' = <<cb>>
             /\ onLocationError' = <<cb>>
             /\ isActive' = TRUE
             /\ intervals' = intervals \o armed
             /\ pending' = pending \cup Range(armed)
             /\ timerSeq' = timerSeq + n
             /\ last' = NoEvent
             /\ UNCHANGED <<now, lastUpdateHistory, locationUpdateHistory,
                            lastKnownLocation, isInitialized, runs, launched>>

\* locationScheduler.ts:36-55, in an exploration of at most budget executions
StartWithin(cb, budget) ==
  IF AlreadyActive
    THEN /\ last' = [Event("start") EXCEPT !.callback = <<cb>>]
         /\ UNCHANGED <<now, isActive, intervals, pending, onLocationUpdate,
                        onLocationError, lastUpdateHistory,
                        locationUpdateHistory, lastKnownLocation,
                        isInitialized, runs, launched, timerSeq>>
    ELSE LET n == Len(scheduledTimes)
             armed == [k \in 1..n |-> NewHandle(k, timerSeq + k)]
         IN  /\ launched < budget
             /\ onLocationUpdate' = <<cb>>
             /\ onLocationError' = <<cb>>
             /\ isActive' = TRUE
             /\ intervals' = intervals \o armed
             /\ pending' = pending \cup Range(armed)
             /\ timerSeq' = timerSeq + n
             /\ runs' = Append(runs, NewRun("scheduled", "Initial"))
             /\ launched' = launched + 1
             /\ last' = NoEvent
             /\ UNCHANGED <<now, lastUpdateHistory, locationUpdateHistory,
                            lastKnownLocation, isInitialized>>

\* locationScheduler.ts:36-55
Start(cb) == StartWithin(cb, MaxRuns)

\* mutant: stop() forgets to clear the timers
AfterClearingNothing == pending

\* locationScheduler.ts:62: the timers left pending after clearInterval was
\* applied to every retained handle (timeouts and intervals share one id
\* pool, so clearInterval cancels a setTimeout timer)
AfterClearing == pending \ Range(intervals)

\* locationScheduler.ts:57-65
Stop ==
  IF ~isActive
    THEN /\ last' = NoEvent
         /\ UNCHANGED <<now, isActive, intervals, pending, onLocationUpdate,
                        onLocationError, lastUpdateHistory,
                        locationUpdateHistory, lastKnownLocation,
                        isInitialized, runs, launched, timerSeq>>
    ELSE /\ pending' = AfterClearing
         /\ intervals' = <<>>
         /\ isActive' = FALSE
         /\ last' = NoEvent
         /\ UNCHANGED <<now, onLocationUpdate, onLocationError,
                        lastUpdateHistory, locationUpdateHistory,
                        lastKnownLocation, isInitialized, runs, launched,
                        timerSeq>>

\* mutant: after a failure the timer callback only re-arms (a backoff)
SlotFireWithinBackoff(h, budget) ==
  LET rearmed == NewHandle(h.slot, timerSeq + 1)
      failedLast == lastUpdateHistory # <<>> /\ ~lastUpdateHistory[1].success
  IN  /\ h \in pending
      /\ now >= h.at
      /\ launched < budget
      /\ runs' = IF failedLast THEN runs
                 ELSE Append(runs, NewRun("scheduled", scheduledTimes[h.slot].label))
      /\ launched' = launched + 1
      /\ pending' = (pending \ {h}) \cup {rearmed}
      /\ intervals' = Append(intervals, rearmed)
      /\ timerSeq' = timerSeq + 1
      /\ last' = NoEvent
      /\ UNCHANGED <<now, isActive, onLocationUpdate, onLocationError,
                     lastUpdateHistory, locationUpdateHistory,
                     lastKnownLocation, isInitialized>>

\* mutant: the slot is armed again only when its execution has ended
SlotFireWithinAwaiting(h, budget) ==
  /\ h \in pending
  /\ now >= h.at
  /\ launched < budget
  /\ runs' = Append(runs, NewRun("scheduled", scheduledTimes[h.slot].label))
  /\ launched' = launched + 1
  /\ pending' = pending \ {h}
  /\ last' = NoEvent
  /\ UNCHANGED <<now, isActive, onLocationUpdate, onLocationError,
                 lastUpdateHistory, locationUpdateHistory,
                 lastKnownLocation, isInitialized, intervals, timerSeq>>

\* locationScheduler.ts:82-87: the callback of the pending timer h, which
\* the runtime runs once the timer's instant is reached, in an exploration
\* of at most budget executions
SlotFireWithin(h, budget) ==
  LET rearmed == NewHandle(h.slot, timerSeq + 1)
  IN  /\ h \in pending
      /\ now >= h.at
      /\ launched < budget
      /\ runs' = Append(runs, NewRun("scheduled", scheduledTimes[h.slot].label))
      /\ launched' = launched + 1
      /\ pending' = (pending \ {h}) \cup {rearmed}
      /\ intervals' = Append(intervals, rearmed)
      /\ timerSeq' = timerSeq + 1
      /\ last' = NoEvent
      /\ UNCHANGED <<now, isActive, onLocationUpdate, onLocationError,
                     lastUpdateHistory, locationUpdateHistory,
                     lastKnownLocation, isInitialized>>

\* locationScheduler.ts:82-87
SlotFire(h) == SlotFireWithin(h, MaxRuns)

\* mutant: forceUpdate() clears the timers as stop() does
ForceUpdateWithinCancelling(budget) ==
  /\ launched < budget
  /\ runs' = Append(runs, NewRun("forced", "Manual"))
  /\ launched' = launched + 1
  /\ pending' = AfterClearing
  /\ intervals' = <<>>
  /\ last' = NoEvent
  /\ UNCHANGED <<now, isActive, onLocationUpdate, onLocationError,
                 lastUpdateHistory, locationUpdateHistory, lastKnownLocation,
                 isInitialized, timerSeq>>

\* locationScheduler.ts:191-195: forceUpdate() up to its await, in an
\* exploration of at most budget executions
ForceUpdateWithin(budget) ==
  /\ launched < budget
  /\ runs' = Append(runs, NewRun("forced", "Manual"))
  /\ launched' = launched + 1
  /\ last' = NoEvent
  /\ UNCHANGED <<now, isActive, intervals, pending, onLocationUpdate,
                 onLocationError, lastUpdateHistory, locationUpdateHistory,
                 lastKnownLocation, isInitialized, timerSeq>>

\* locationScheduler.ts:191-195
ForceUpdate == ForceUpdateWithin(MaxRuns)

----------------------------------------------------------------------------
(* Environment: the clock and the awaited requests *)

\* mutant: the clock may be set back between two tasks
TickBackwards(t) ==
  /\ t # now
  /\ \A h \in pending : h.at > now
  /\ now' = t
  /\ last' = NoEvent
  /\ UNCHANGED <<isActive, intervals, pending, onLocationUpdate,
                 onLocationError, lastUpdateHistory, locationUpdateHistory,
                 lastKnownLocation, isInitialized, runs, launched, timerSeq>>

\* The clock moves to a later instant; a timer that is due runs first.
Tick(t) ==
  /\ t > now
  /\ \A h \in pending : h.at > now
  /\ now' = t
  /\ last' = NoEvent
  /\ UNCHANGED <<isActive, intervals, pending, onLocationUpdate,
                 onLocationError, lastUpdateHistory, locationUpdateHistory,
                 lastKnownLocation, isInitialized, runs, launched, timerSeq>>

\* execution i moves on to await its next request
Advance(i, phase, coords, initialized) ==
  /\ runs' = [runs EXCEPT ![i].phase = phase, ![i].coords = coords]
  /\ isInitialized' = initialized
  /\ last' = NoEvent
  /\ UNCHANGED <<now, isActive, intervals, pending, onLocationUpdate,
                 onLocationError, lastUpdateHistory, locationUpdateHistory,
                 lastKnownLocation, launched, timerSeq>>

\* googleMapsService.ts:164-167: the position fix arrives and
\* getCityFromCoordinates is entered
PositionOk(i, c) ==
  /\ runs[i].phase = "position"
  /\ Advance(i, "primary", <<c>>, isInitialized)

\* googleMapsService.ts:181-198 rejects: denied, unavailable or timed out
PositionFail(i) ==
  /\ runs[i].phase = "position"
  /\ Reject(i, PositionError)
  /\ UNCHANGED isInitialized

\* googleMapsService.ts:43-55 and 58: loader.load() rejected; initialize()
\* is awaited outside the try block of getCityFromCoordinates, so its error
\* leaves getCityFromCoordinates and getCurrentLocation
InitializeFail(i) ==
  /\ runs[i].phase = "primary"
  /\ ~isInitialized
  /\ Reject(i, InitializeError)
  /\ UNCHANGED isInitialized

\* googleMapsService.ts:43-50, 67-115: the provider is loaded (if it was
\* not) and answers status OK with a first result
PrimaryOkStoring(i, result, stored) ==
  /\ runs[i].phase = "primary"
  /\ ResolveStoring(i, CityInfoFromPrimary(result), Answer(<<result>>, <<>>),
                    stored)
  /\ isInitialized' = TRUE

\* the same with a localStorage that accepts the cache entry
PrimaryOk(i, result) == PrimaryOkStoring(i, result, TRUE)

\* googleMapsService.ts:43-50, 72, 78, 116-120: the provider is loaded (if
\* it was not) and geocoding fails or finds nothing
PrimaryFail(i) ==
  /\ runs[i].phase = "primary"
  /\ Advance(i, "fallback", runs[i].coords, TRUE)

\* googleMapsService.ts:128-151
SecondaryOk(i, address) ==
  /\ runs[i].phase = "fallback"
  /\ Resolve(i, CityInfoFromSecondary(address), Answer(<<>>, <<address>>))
  /\ UNCHANGED isInitialized

\* googleMapsService.ts:132-134, 152-159
SecondaryFail(i) ==
  /\ runs[i].phase = "fallback"
  /\ Resolve(i, UnknownCityInfo, Answer(<<>>, <<>>))
  /\ UNCHANGED isInitialized

----------------------------------------------------------------------------

Next ==
  \/ \E cb \in Callbacks : Start(cb)
  \/ Stop
  \/ \E h \in pending : SlotFire(h)
  \/ ForceUpdate
  \/ \E t \in Instants : Tick(t)
  \/ \E i \in 1..Len(runs) : \E c \in Coordinates : PositionOk(i, c)
  \/ \E i \in 1..Len(runs) : PositionFail(i)
  \/ \E i \in 1..Len(runs) : InitializeFail(i)
  \/ \E i \in 1..Len(runs) : \E result \in PrimaryResponses : PrimaryOk(i, result)
  \/ \E i \in 1..Len(runs) : PrimaryFail(i)
  \/ \E i \in 1..Len(runs) : \E address \in SecondaryResponses : SecondaryOk(i, address)
  \/ \E i \in 1..Len(runs) : SecondaryFail(i)

Spec == Init /\ [][Next]_vars

----------------------------------------------------------------------------
(* Vocabulary of the properties *)

Settled == last.op = "settle"

\* the execution that just ended could not produce a live location
LiveFailed == last.cause # ""

FreshWindow == FreshHours * MinutesPerHour

\* age, at the instant the execution ended, of the snapshot the cache held
CacheAge == now - last.cacheBefore[1].timestamp

CacheWasEmpty == last.cacheBefore = <<>>

CacheWasStale == last.cacheBefore # <<>> /\ CacheAge >= FreshWindow

CacheWasFresh == last.cacheBefore # <<>> /\ CacheAge < FreshWindow

\* the execution ended in the reported error
TerminalError == last.message # <<>>

SlotLabels == {scheduledTimes[k].label : k \in 1..Len(scheduledTimes)}

CalledUpdate == \E k \in 1..Len(last.calls) : last.calls[k].fn = "onLocationUpdate"

CalledError == \E k \in 1..Len(last.calls) : last.calls[k].fn = "onLocationError"

----------------------------------------------------------------------------
(* C1: a scheduled execution (slot fire or the initial one of start) whose  *)
(* live acquisition fails while the cache is empty or holds a snapshot aged *)
(* 12h or more reports the error through onLocationError, records a         *)
(* failure, and does not invoke onLocationUpdate.                           *)
C1_ScheduledStaleIsError ==
  (Settled /\ last.kind = "scheduled" /\ LiveFailed
     /\ (CacheWasEmpty \/ CacheWasStale))
  => /\ Len(last.calls) = 1
     /\ CalledError
     /\ ~CalledUpdate
     /\ TerminalError
     /\ lastUpdateHistory # <<>>
     /\ ~lastUpdateHistory[1].success

C1_Witness ==
  Settled /\ last.kind = "scheduled" /\ LiveFailed /\ CacheWasStale /\ CalledError

(* C2: a forceUpdate() whose live acquisition fails while the cache holds a *)
(* snapshot aged 12h or more fails with the terminal error; it does not     *)
(* return the stale snapshot.                                               *)
C2_ForcedStaleIsError ==
  (Settled /\ last.kind = "forced" /\ LiveFailed /\ CacheWasStale)
  => /\ last.result = "threw"
     /\ TerminalError

(* C3: a forceUpdate() whose live acquisition fails while the cache holds a *)
(* snapshot younger than 12h returns a snapshot with source cached and the  *)
(* timestamp of the completion, not the cached timestamp.                   *)
C3_ForcedFreshIsRestamped ==
  (Settled /\ last.kind = "forced" /\ LiveFailed /\ CacheWasFresh)
  => /\ last.result = "returned"
     /\ last.value # <<>>
     /\ last.value[1].source = "cached"
     /\ last.value[1].timestamp = now

(* C4: at most one pipeline execution is resolving at any time.             *)
C4_SingleFlight == Len(runs) <= 1

(* C5: while the scheduler is active every configured slot has exactly one  *)
(* pending timer, and while it is idle no timer is pending; the timers      *)
(* armed for one slot since start() aim at strictly later occurrences, so   *)
(* no occurrence of a slot is fired twice.                                  *)
C5_OneTimerPerSlot ==
  /\ IF isActive
       THEN \A k \in 1..Len(scheduledTimes) :
              Cardinality({h \in pending : h.slot = k}) = 1
       ELSE pending = {}
  /\ \A i \in 1..Len(intervals) : \A j \in 1..Len(intervals) :
       (i < j /\ intervals[i].slot = intervals[j].slot)
         => intervals[i].at < intervals[j].at

\* active, and a slot has fired and been re-armed since start()
C5_Witness ==
  /\ isActive
  /\ Len(intervals) > Len(scheduledTimes)
  /\ \E h \in pending : h.id > Len(scheduledTimes)

\* a step that begins a scheduled execution (slot fire or start)
ScheduledLaunch ==
  /\ Len(runs') = Len(runs) + 1
  /\ runs'[Len(runs')].kind = "scheduled"

(* C6: stop() leaves no timer pending; while the scheduler stays idle no    *)
(* timer is armed and no scheduled execution begins; after the next start() *)
(* every pending timer is one that this start() armed.                      *)
C6_StopCancelsEveryTimer ==
  [][ /\ (isActive /\ ~isActive') => pending' = {}
      /\ (~isActive /\ ~isActive') => (pending' = {} /\ ~ScheduledLaunch)
      /\ (~isActive /\ isActive') =>
           /\ \A h \in pending' : h.id > timerSeq
           /\ Cardinality(pending') = Len(scheduledTimes) ]_vars

\* started again after a stop(): only the timers of the second start() exist
C6_Witness ==
  /\ isActive
  /\ Len(intervals) = Len(scheduledTimes)
  /\ \A h \in pending : h.id > Len(scheduledTimes)

(* C7: an execution begun by a slot fire that ends after stop() (scheduler  *)
(* idle) still delivers exactly one callback, onLocationUpdate or           *)
(* onLocationError, and arms no timer: none is pending when it has ended.   *)
C7_InFlightRunDeliversOnce ==
  (Settled /\ last.kind = "scheduled" /\ last.label \in SlotLabels /\ ~isActive)
  => /\ Len(last.calls) = 1
     /\ CalledUpdate \/ CalledError
     /\ pending = {}
     /\ Len(lastUpdateHistory) >= 1

C7_Witness ==
  /\ Settled /\ last.kind = "scheduled" /\ last.label \in SlotLabels
  /\ ~isActive /\ CalledUpdate

(* C8: the cached snapshot is fresh exactly when the clock read now minus   *)
(* its timestamp is less than 12 hours; at exactly 12 hours it is stale.    *)
C8_FreshIffUnderTwelveHours ==
  getCachedLocation # <<>>
  => LET s == getCachedLocation[1]
     IN  /\ isCachedLocationFresh(s) <=> (now - s.timestamp < FreshWindow)
         /\ (now - s.timestamp = FreshWindow) => ~isCachedLocationFresh(s)

\* a snapshot that was written fresh is exactly 12h old and stale, the cache
\* entry being the one that was written
C8_Witness ==
  /\ getCachedLocation # <<>>
  /\ now - getCachedLocation[1].timestamp = FreshWindow
  /\ ~isCachedLocationFresh(getCachedLocation[1])

(* C9: geocoding never fails: no pipeline execution ends because            *)
(* getCityFromCoordinates threw, whatever the providers (or the loading of  *)
(* the primary provider) did.                                               *)
C9_ResolveNeverFails == Settled => last.cause # "init"

(* C10: an execution ends in the terminal error exactly when the position   *)
(* acquisition failed and the cache held no fresh snapshot; when the        *)
(* position was acquired it ends in a success with a live snapshot.         *)
C10_ErrorIffNoPositionNoFresh ==
  Settled
  => /\ TerminalError <=> (last.cause = "position" /\ ~CacheWasFresh)
     /\ (last.cause # "position")
          => /\ ~TerminalError
             /\ lastUpdateHistory # <<>>
             /\ lastUpdateHistory[1].success
             /\ lastUpdateHistory[1].location # <<>>
             /\ lastUpdateHistory[1].location[1].source = "live"


----------------------------------------------------------------------------
(* The history over many executions: start() and stop() alternate, each
   start() launches one Initial execution, and one execution is in flight
   at a time. *)

HistRuns == 11

HistNext ==
  \/ \E cb \in Callbacks : runs = <<>> /\ StartWithin(cb, HistRuns)
  \/ Stop
  \/ \E i \in 1..Len(runs) : \E c \in Coordinates : PositionOk(i, c)
  \/ \E i \in 1..Len(runs) : PositionFail(i)
  \/ \E i \in 1..Len(runs) : \E result \in PrimaryResponses : PrimaryOk(i, result)

HistSpec == Init /\ [][HistNext]_vars

\* the first n elements of s
Take(s, n) == SubSeq(s, 1, IF Len(s) < n THEN Len(s) ELSE n)

\* C11: the history never holds more than maxHistorySize records, and
\* whenever it changes, the new history is the new record followed by the
\* previous records, newest first, cut after the maxHistorySize-th: the
\* record that falls off is the oldest one
C11_HistoryKeepsTenNewest ==
  [][ /\ Len(lastUpdateHistory') <= maxHistorySize
      /\ \/ lastUpdateHistory' = lastUpdateHistory
         \/ /\ lastUpdateHistory' # <<>>
            /\ lastUpdateHistory' =
                 Take(<<lastUpdateHistory'[1]>> \o lastUpdateHistory,
                      maxHistorySize) ]_vars

\* an eleventh record was made: the history is full, and its oldest
\* remaining record is a failure that newer successes have pushed down
C11_Witness ==
  /\ launched > maxHistorySize
  /\ runs = <<>>
  /\ Len(lastUpdateHistory) = maxHistorySize
  /\ ~lastUpdateHistory[maxHistorySize].success
  /\ lastUpdateHistory[1].success


----------------------------------------------------------------------------
(* The best known location: executions run one at a time, and localStorage
   may refuse a cache entry, which leaves a history without a cache. *)

BestRuns == 2

BestNext ==
  \/ \E cb \in Callbacks : runs = <<>> /\ StartWithin(cb, BestRuns)
  \/ runs = <<>> /\ ForceUpdateWithin(BestRuns)
  \/ \E t \in Instants : Tick(t)
  \/ \E i \in 1..Len(runs) : \E c \in Coordinates : PositionOk(i, c)
  \/ \E i \in 1..Len(runs) : PositionFail(i)
  \/ \E i \in 1..Len(runs) : \E result \in PrimaryResponses :
       \E stored \in BOOLEAN : PrimaryOkStoring(i, result, stored)

BestSpec == Init /\ [][BestNext]_vars

\* the history holds a successful record
HasSuccessful == \E k \in 1..Len(lastUpdateHistory) : lastUpdateHistory[k].success

\* C12: getCurrentBestLocation() is the cache entry whenever there is one,
\* whatever its age and whatever the history holds; without a cache entry
\* it is the snapshot of the most recent successful record; without either
\* it is null
C12_BestIsCacheThenHistory ==
  /\ lastKnownLocation # <<>> =>
       /\ getCurrentBestLocation # <<>>
       /\ getCurrentBestLocation[1].source = "cached"
       /\ getCurrentBestLocation[1].timestamp = NewDate(lastKnownLocation[1].timestamp)
       /\ getCurrentBestLocation[1].cityInfo = lastKnownLocation[1].cityInfo
       /\ getCurrentBestLocation[1].coordinates = lastKnownLocation[1].coordinates
  /\ lastKnownLocation = <<>> /\ HasSuccessful =>
       \E k \in 1..Len(lastUpdateHistory) :
         /\ lastUpdateHistory[k].success
         /\ \A j \in 1..(k - 1) : ~lastUpdateHistory[j].success
         /\ getCurrentBestLocation = lastUpdateHistory[k].location
  /\ lastKnownLocation = <<>> /\ ~HasSuccessful => getCurrentBestLocation = <<>>

\* a stale cache entry next to a newer successful record with another
\* timestamp: the cache entry is what is returned
C12_Witness ==
  /\ lastKnownLocation # <<>>
  /\ ~isCachedLocationFresh(getCachedLocation[1])
  /\ lastUpdateHistory # <<>>
  /\ lastUpdateHistory[1].success
  /\ lastUpdateHistory[1].location[1].timestamp > getCachedLocation[1].timestamp
  /\ getCurrentBestLocation = getCachedLocation

\* no cache entry, and the newest record is a failure above a success
C12_HistoryCase ==
  /\ lastKnownLocation = <<>>
  /\ Len(lastUpdateHistory) > 1
  /\ ~lastUpdateHistory[1].success
  /\ getCurrentBestLocation # <<>>


----------------------------------------------------------------------------
(* The next update times at minute resolution: the application is opened at
   any of the clock readings below and the clock moves among them; the
   executions launched stay in flight. *)

TimesDay == 1

TimesRuns == 2

\* day d, hour:minute
ClockAt(d, hour, minute) == d * DayMinutes + hour * MinutesPerHour + minute

\* readings just before, at and just after every slot, and at midnight
ClockReadings ==
  { ClockAt(d, hm[1], hm[2]) :
      d \in 0..TimesDay,
      hm \in { <<0, 0>>, <<7, 0>>, <<7, 59>>, <<8, 0>>, <<8, 1>>, <<8, 5>>,
               <<13, 59>>, <<14, 0>>, <<14, 1>>, <<19, 59>>, <<20, 0>>,
               <<20, 1>>, <<23, 59>> } }

TimesInit ==
  /\ now \in ClockReadings
  /\ Constructed

TimesNext ==
  \/ \E cb \in Callbacks : StartWithin(cb, TimesRuns)
  \/ Stop
  \/ \E h \in pending : SlotFireWithin(h, TimesRuns)
  \/ \E t \in ClockReadings : Tick(t)

TimesSpec == TimesInit /\ [][TimesNext]_vars

\* the slot's minute of the day
SlotMinute(k) ==
  scheduledTimes[k].hour * MinutesPerHour + scheduledTimes[k].minute

\* the day an instant lies in
DayOf(t) == t \div DayMinutes

\* C13: for every current time and every slot, getNextUpdateTimes() gives
\* the earliest occurrence of the slot's hour:minute strictly after now:
\* today's if it is later than now, tomorrow's otherwise; at 07:00 all three
\* are today's, at 08:05 Morning is tomorrow's 08:00 and the others today's
C13_NextTimeIsEarliestAfterNow ==
  /\ Len(getNextUpdateTimes) = Len(scheduledTimes)
  /\ \A k \in 1..Len(scheduledTimes) :
       LET next == getNextUpdateTimes[k]
           today == DayOf(now) * DayMinutes + SlotMinute(k)
       IN  /\ next.label = scheduledTimes[k].label
           /\ next.time > now
           /\ next.time % DayMinutes = SlotMinute(k)
           /\ next.time - now <= DayMinutes
           /\ next.time = IF today > now THEN today ELSE today + DayMinutes
  /\ now % DayMinutes = ClockAt(0, 7, 0) =>
       \A k \in 1..Len(scheduledTimes) : DayOf(getNextUpdateTimes[k].time) = DayOf(now)
  /\ now % DayMinutes = ClockAt(0, 8, 5) =>
       /\ getNextUpdateTimes[1].time = ClockAt(DayOf(now) + 1, 8, 0)
       /\ getNextUpdateTimes[2].time = ClockAt(DayOf(now), 14, 0)
       /\ getNextUpdateTimes[3].time = ClockAt(DayOf(now), 20, 0)

\* asked exactly at 08:00 with the scheduler running: Morning is tomorrow's
C13_Witness ==
  /\ isActive
  /\ now = ClockAt(0, 8, 0)
  /\ getNextUpdateTimes[1].time = ClockAt(1, 8, 0)
  /\ getNextUpdateTimes[2].time = ClockAt(0, 14, 0)


----------------------------------------------------------------------------
(* The cache after an execution *)

\* the execution that just ended did not end in the reported error
Succeeded == Settled /\ ~TerminalError

\* the snapshot the execution that just ended handed out: the value
\* forceUpdate returned, or the argument of onLocationUpdate; <<>> if none
Delivered ==
  IF last.value # <<>> THEN last.value
  ELSE IF CalledUpdate THEN last.calls[1].location
  ELSE <<>>

\* the cache entry carries the coordinates, city and timestamp of snapshot
CacheHolds(snapshot) ==
  /\ getCachedLocation # <<>>
  /\ getCachedLocation[1].coordinates = snapshot.coordinates
  /\ getCachedLocation[1].cityInfo = snapshot.cityInfo
  /\ getCachedLocation[1].timestamp = snapshot.timestamp

----------------------------------------------------------------------------
(* Termination of executions *)

\* googleMapsService.ts:188-196: the position request of some execution
\* settles, with a fix or with an error
PositionSettles ==
  \E i \in 1..Len(runs) :
    \/ \E c \in Coordinates : PositionOk(i, c)
    \/ PositionFail(i)

\* The position request is made with timeout: 15000 and so always settles.
\* geocoder.geocode (line 68) and fetch (line 128) are awaited without any
\* timeout: nothing obliges either provider to answer.
FairSpec == Init /\ [][Next]_vars /\ WF_vars(PositionSettles)

\* C15: every execution that was started, scheduled or forced, eventually
\* completes, also when a provider never answers: whenever executions are
\* in flight, a later state has none (the number of launches is bounded)
C15_EveryRunCompletes == (runs # <<>>) ~> (runs = <<>>)


----------------------------------------------------------------------------
(* forceUpdate() and the timers *)

\* a step of forceUpdate(): the call itself, the arrival of one of its
\* awaited answers, or its completion
ForcedStep ==
  \/ /\ Len(runs') = Len(runs) + 1
     /\ runs'[Len(runs')].kind = "forced"
  \/ /\ Len(runs') = Len(runs)
     /\ \E i \in 1..Len(runs) : runs[i].kind = "forced" /\ runs'[i] # runs[i]
  \/ /\ last'.op = "settle"
     /\ last'.kind = "forced"

\* C16: no step of forceUpdate(), whatever its outcome and whether the
\* scheduler is active or not, changes the pending timers, their instants
\* or the retained handles
C16_ForceUpdateLeavesTimers ==
  [][ ForcedStep => pending' = pending /\ intervals' = intervals ]_vars

\* a forceUpdate() ended in its error while all three slots were armed
C16_Witness ==
  /\ Settled
  /\ last.kind = "forced"
  /\ last.result = "threw"
  /\ isActive
  /\ Cardinality(pending) = Len(scheduledTimes)


----------------------------------------------------------------------------
(* The source of the snapshots handed out *)

\* the execution that just ended put a successful record on the history
RecordedSuccess == Succeeded /\ (last.kind = "scheduled" \/ ~LiveFailed)

\* C17: a snapshot handed out is marked cached exactly when it was served
\* from the cache, that is when the live acquisition of the execution had
\* failed, and is marked live when the execution resolved it: this holds
\* for the argument of onLocationUpdate, the value forceUpdate() returns
\* and the snapshot put on the history; what getCurrentBestLocation()
\* serves from the cache is marked cached
C17_CachedIffServedFromCache ==
  /\ Settled =>
       /\ \A k \in 1..Len(last.calls) :
            last.calls[k].location # <<>> =>
              (last.calls[k].location[1].source = "cached" <=> LiveFailed)
       /\ last.value # <<>> => (last.value[1].source = "cached" <=> LiveFailed)
       /\ RecordedSuccess =>
            /\ lastUpdateHistory # <<>>
            /\ lastUpdateHistory[1].success
            /\ lastUpdateHistory[1].location[1].source = "cached" <=> LiveFailed
  /\ \A k \in 1..Len(lastUpdateHistory) :
       lastUpdateHistory[k].success =>
         lastUpdateHistory[k].location[1].source \in {"live", "cached"}
  /\ lastKnownLocation # <<>> => getCurrentBestLocation[1].source = "cached"

\* a scheduled fallback recorded a snapshot marked cached above a record of
\* the live snapshot it was served from
C17_Witness ==
  /\ RecordedSuccess
  /\ LiveFailed
  /\ Delivered[1].source = "cached"
  /\ Len(lastUpdateHistory) > 1
  /\ lastUpdateHistory[1].location[1].source = "cached"
  /\ lastUpdateHistory[2].success
  /\ lastUpdateHistory[2].location[1].source = "live"


----------------------------------------------------------------------------
(* Geocoding over many provider answers: forceUpdate() is called while no
   execution is in flight, the position fix arrives and the primary
   provider answers with any combination of feature-type tags. *)

GeoRuns == 2

\* feature types the primary provider puts on a result
GeoTags ==
  {"street_address", "premise", "administrative_area_level_2", "political",
   "locality"}

\* the longest list of address components of a result
MaxComponents == 3

\* address components: a locality, a first-level area, a country, a
\* component the loop ignores, and components carrying the country tag
\* together with a city-relevant one (a city state)
GeoComponents ==
  { [long_name |-> "Pune",        types |-> {"locality", "political"}],
    [long_name |-> "Maharashtra", types |-> {"administrative_area_level_1", "political"}],
    [long_name |-> "India",       types |-> {"country", "political"}],
    [long_name |-> "Haveli",      types |-> {"administrative_area_level_2", "political"}],
    [long_name |-> "Singapore",   types |-> {"locality", "country"}],
    [long_name |-> "Monaco",      types |-> {"administrative_area_level_1", "country"}] }

\* the lists of at most MaxComponents components, in every order
GeoComponentLists ==
  UNION { [1..n -> GeoComponents] : n \in 0..MaxComponents }

GeoPrimaryResponses ==
  { [types |-> types,
     address_components |->
       << [long_name |-> "Pune",  types |-> {"locality", "political"}],
          [long_name |-> "India", types |-> {"country", "political"}] >>] :
    types \in SUBSET GeoTags }
  \cup
  { [types |-> {"premise"}, address_components |-> components] :
    components \in GeoComponentLists }

GeoNext ==
  \/ runs = <<>> /\ ForceUpdateWithin(GeoRuns)
  \/ \E i \in 1..Len(runs) : \E c \in Coordinates : PositionOk(i, c)
  \/ \E i \in 1..Len(runs) : \E result \in GeoPrimaryResponses : PrimaryOk(i, result)

GeoSpec == Init /\ [][GeoNext]_vars

\* the execution that just ended was resolved by the primary provider
PrimaryAnswered == Settled /\ last.primary # <<>>

\* the feature types of the primary provider's result
AnsweredTypes == last.primary[1].types

\* the accuracy tier of the delivered snapshot
DeliveredAccuracy == Delivered[1].cityInfo.accuracy

StreetLevel(types) == "street_address" \in types \/ "premise" \in types

\* C19 as stated: high when the tags include premise or street_address,
\* low when the result is tagged only administrative_area_level_2, medium
\* for every other combination of tags
C19_LowOnlyForLevel2Alone ==
  PrimaryAnswered =>
    DeliveredAccuracy =
      IF StreetLevel(AnsweredTypes) THEN "high"
      ELSE IF AnsweredTypes = {"administrative_area_level_2"} THEN "low"
      ELSE "medium"

\* C19 amended: high when the tags include premise or street_address; low
\* when they include administrative_area_level_2 and neither of those two,
\* whatever other tags come with it; medium when they include none of the
\* three
C19_LowWheneverLevel2 ==
  PrimaryAnswered =>
    /\ StreetLevel(AnsweredTypes) => DeliveredAccuracy = "high"
    /\ ~StreetLevel(AnsweredTypes) /\ "administrative_area_level_2" \in AnsweredTypes
         => DeliveredAccuracy = "low"
    /\ ~StreetLevel(AnsweredTypes) /\ "administrative_area_level_2" \notin AnsweredTypes
         => DeliveredAccuracy = "medium"

\* the provider's usual tagging of a second-level area gives low
C19_Witness ==
  /\ PrimaryAnswered
  /\ AnsweredTypes = {"administrative_area_level_2", "political"}
  /\ DeliveredAccuracy = "low"


----------------------------------------------------------------------------
(* Records and callback invocations per execution *)

\* the history after one record was put in front of it
OneRecordAdded ==
  /\ lastUpdateHistory' # <<>>
  /\ lastUpdateHistory' =
       Take(<<lastUpdateHistory'[1]>> \o lastUpdateHistory, maxHistorySize)
  /\ Len(lastUpdateHistory') > Len(lastUpdateHistory)
       \/ Len(lastUpdateHistory) = maxHistorySize

\* C20: the completion of every execution, scheduled or forced, puts
\* exactly one record on the history and invokes exactly one callback once
\* when callbacks are registered (none otherwise); no other step changes
\* the history
C20_OneRecordOneCallback ==
  [][ IF last'.op = "settle"
        THEN /\ OneRecordAdded
             /\ Len(last'.calls) = (IF onLocationUpdate = <<>> THEN 0 ELSE 1)
        ELSE lastUpdateHistory' = lastUpdateHistory ]_vars


----------------------------------------------------------------------------
(* The effects of a live success *)

\* the record recordUpdate makes of a successful snapshot at this instant
SuccessRecord(snapshot) ==
  [timestamp |-> now, location |-> <<snapshot>>, success |-> TRUE,
   error |-> <<>>]

----------------------------------------------------------------------------
(* The fresh-cache fallback of a scheduled execution *)

\* C22: a scheduled execution whose live acquisition fails while the cache
\* holds a snapshot younger than twelve hours records a success and invokes
\* onLocationUpdate with a snapshot that has the cached coordinates and
\* city, source cached, and the instant of the execution as its timestamp
C22_FallbackServesRestamped ==
  Settled /\ last.kind = "scheduled" /\ LiveFailed /\ CacheWasFresh =>
    /\ ~TerminalError
    /\ Len(last.calls) = 1
    /\ last.calls[1].fn = "onLocationUpdate"
    /\ Delivered[1].coordinates = last.cacheBefore[1].coordinates
    /\ Delivered[1].cityInfo = last.cacheBefore[1].cityInfo
    /\ Delivered[1].source = "cached"
    /\ Delivered[1].timestamp = now
    /\ lastUpdateHistory[1] = SuccessRecord(Delivered[1])

\* the fallback served a snapshot cached at an earlier instant, less than
\* twelve hours before
C22_Witness ==
  /\ Settled
  /\ last.kind = "scheduled"
  /\ LiveFailed
  /\ CacheWasFresh
  /\ CacheAge > 0
  /\ Delivered[1].timestamp = now
  /\ last.cacheBefore[1].timestamp < now


----------------------------------------------------------------------------
(* Re-arming over several days: the scheduler is started once and stays
   active; the clock stands at 07:00, 08:00 and 20:00 of each day, so a
   timer may fire hours after its instant (the device slept); a slot may
   fire while the previous execution is still in flight. *)

RearmDay == 1

RearmRuns == 3

RearmInstants == { d * DayMinutes + m : d \in 0..RearmDay, m \in DayMarks }

RearmNext ==
  \/ \E cb \in Callbacks : StartWithin(cb, RearmRuns)
  \/ \E h \in pending : Len(runs) <= 1 /\ SlotFireWithin(h, RearmRuns)
  \/ \E t \in RearmInstants : Tick(t)
  \/ \E i \in 1..Len(runs) : \E c \in Coordinates : PositionOk(i, c)
  \/ \E i \in 1..Len(runs) : PositionFail(i)
  \/ \E i \in 1..Len(runs) : \E result \in PrimaryResponses : PrimaryOk(i, result)

RearmSpec == Init /\ [][RearmNext]_vars

\* the timers that fire in this step and the timers it arms
Fired == pending \ pending'

Armed == pending' \ pending

\* a step in which a slot timer fires while the scheduler is and stays active
FireStep == isActive /\ isActive' /\ Fired # {}

\* C23 as stated: a timer that fires at instant T is re-armed for T + 24h,
\* so that consecutive fires of a slot are at least a day apart
C23_RearmedADayAfterFire ==
  [][ FireStep => \A r \in Armed : r.at = now + DayMinutes ]_vars

\* C23 amended: a timer that fires is replaced in the same step by one
\* timer for the same slot, aimed at the first occurrence of the slot's
\* hour:minute strictly after the instant of the fire; that is one day
\* after the instant the fired timer was aimed at when it fires less than
\* a day late; the completion of an execution, whatever its outcome,
\* changes no timer; the instants successive timers of a slot are aimed at
\* are whole days apart
C23_RearmedForNextOccurrence ==
  [][ /\ FireStep =>
           \A h \in Fired :
             /\ Cardinality(Armed) = 1
             /\ \A r \in Armed :
                  /\ r.slot = h.slot
                  /\ r.at > now
                  /\ r.at - now <= DayMinutes
                  /\ r.at % DayMinutes = SlotMinute(h.slot)
                  /\ (r.at - h.at) % DayMinutes = 0
                  /\ r.at - h.at >= DayMinutes
                  /\ now < h.at + DayMinutes => r.at = h.at + DayMinutes
      /\ last'.op = "settle" => pending' = pending ]_vars

\* one slot has fired twice since start(): late on the first day, while an
\* execution was in flight or settled, and again on the second day
C23_Witness ==
  /\ isActive
  /\ \E k \in 1..Len(scheduledTimes) :
       \E a, b, c \in Range(intervals) :
         /\ a.slot = k /\ b.slot = k /\ c.slot = k
         /\ b.at = a.at + DayMinutes
         /\ c.at = b.at + DayMinutes
         /\ c \in pending


----------------------------------------------------------------------------
(* After an error *)

\* the newest execution in flight
Newest == runs'[Len(runs')]

\* C24: while the scheduler is active, an execution that ends in the error
\* leaves one timer pending for every slot; every timer that fires, whatever
\* the earlier outcomes, starts a new execution for its slot, which begins
\* with a position request of its own; nothing counts or remembers failures
C24_NoStickyError ==
  /\ [](Settled /\ TerminalError /\ isActive =>
          \A k \in 1..Len(scheduledTimes) :
            \E h \in pending :
              /\ h.slot = k
              /\ h.at % DayMinutes = SlotMinute(k)
              /\ \A g \in pending : g.slot = k => g = h)
  /\ [][ FireStep =>
           /\ Len(runs') = Len(runs) + 1
           /\ \A h \in Fired :
                Newest = NewRun("scheduled", scheduledTimes[h.slot].label)
           /\ Newest.phase = "position" ]_vars

\* a slot fired after an execution had ended in the error, and its
\* execution got a live snapshot
C24_Witness ==
  /\ isActive
  /\ Settled
  /\ last.label \in SlotLabels
  /\ ~LiveFailed
  /\ Len(lastUpdateHistory) > 1
  /\ ~lastUpdateHistory[2].success


----------------------------------------------------------------------------
(* The terminal error *)

\* the record recordUpdate makes of a failure at this instant
FailureRecord(message) ==
  [timestamp |-> now, location |-> <<>>, success |-> FALSE, error |-> message]

\* C25: an execution that ends in the terminal error puts exactly one
\* failure record carrying the error message in front of the history,
\* invokes onLocationError (if registered) once with that same message and
\* no other callback, throws that message to the caller when it was
\* forced, and leaves the cache entry unchanged
C25_TerminalErrorEffects ==
  [][ (last'.op = "settle" /\ last'.message # <<>>) =>
        /\ lastUpdateHistory' =
             Take(<<FailureRecord(last'.message)>> \o lastUpdateHistory,
                  maxHistorySize)
        /\ Len(last'.calls) = Len(onLocationError)
        /\ \A k \in 1..Len(last'.calls) :
             /\ last'.calls[k].fn = "onLocationError"
             /\ last'.calls[k].message = last'.message
        /\ last'.kind = "forced" <=> last'.result = "threw"
        /\ last'.value = <<>>
        /\ lastKnownLocation' = lastKnownLocation ]_vars

\* a forceUpdate() threw while callbacks were registered and the history
\* already held a record
C25_Witness ==
  /\ Settled
  /\ TerminalError
  /\ last.kind = "forced"
  /\ Len(last.calls) = 1
  /\ last.calls[1].message = last.message
  /\ Len(lastUpdateHistory) > 1
  /\ lastUpdateHistory[1].error = last.message


----------------------------------------------------------------------------
(* start() with other callbacks: the hook may call start() again with
   handlers of a later render. *)

StartRuns == 2

StartCallbacks == {"cb1", "cb2"}

StartNext ==
  \/ \E cb \in StartCallbacks : StartWithin(cb, StartRuns)
  \/ Stop
  \/ \E h \in pending : SlotFireWithin(h, StartRuns)
  \/ \E t \in DayMarks : Tick(t)
  \/ \E i \in 1..Len(runs) : \E c \in Coordinates : PositionOk(i, c)
  \/ \E i \in 1..Len(runs) : PositionFail(i)
  \/ \E i \in 1..Len(runs) : \E result \in PrimaryResponses : PrimaryOk(i, result)

StartSpec == Init /\ [][StartNext]_vars

\* C26: start() called while the scheduler is active changes nothing: the
\* timers, the registered callbacks, the history, the cache and the
\* executions in flight stay as they are; so while the scheduler is active
\* no step registers a callback, launches an Initial execution or leaves
\* more than one timer per slot
C26_StartWhileActiveIsNoOp ==
  [][ /\ last'.op = "start" =>
           /\ isActive
           /\ UNCHANGED <<now, isActive, intervals, pending, onLocationUpdate,
                          onLocationError, lastUpdateHistory,
                          locationUpdateHistory, lastKnownLocation,
                          isInitialized, runs, launched, timerSeq>>
      /\ isActive =>
           /\ onLocationUpdate' = onLocationUpdate
           /\ onLocationError' = onLocationError
           /\ Len(runs') > Len(runs) => Newest.label # "Initial"
           /\ Cardinality(pending') <= Len(scheduledTimes) ]_vars

\* start() was called with another callback while the scheduler was active
\* with an execution in flight and a re-armed timer: the first callback is
\* still the registered one
C26_Witness ==
  /\ last.op = "start"
  /\ isActive
  /\ last.callback # onLocationUpdate
  /\ last.callback # onLocationError
  /\ runs # <<>>
  /\ Len(intervals) > Len(scheduledTimes)


----------------------------------------------------------------------------
(* City and country from the address components *)

\* the address components of the primary provider's result
AnsweredComponents == last.primary[1].address_components

\* the names of the components carrying tag
Named(components, tag) ==
  { components[k].long_name :
      k \in { j \in 1..Len(components) : tag \in components[j].types } }

\* C27: for every list of address components, in any order, the city is
\* the name of a component tagged locality if there is one, otherwise of a
\* component tagged administrative_area_level_1 if there is one, otherwise
\* "Unknown City"; the country is the name of a component tagged country
\* whenever there is one, also when that component carries a city-relevant
\* tag as well
C27_CityAndCountryIndependent ==
  PrimaryAnswered =>
    LET localities == Named(AnsweredComponents, "locality")
        areas      == Named(AnsweredComponents, "administrative_area_level_1")
        countries  == Named(AnsweredComponents, "country")
        info       == Delivered[1].cityInfo
    IN  /\ IF localities # {} THEN info.city \in localities
           ELSE IF areas # {} THEN info.city \in areas
           ELSE info.city = "Unknown City"
        /\ IF countries # {} THEN info.country \in countries
           ELSE info.country = "Unknown Country"


----------------------------------------------------------------------------
(* The geocoding fallback chain *)

\* execution i is the one this step ended
Left(i) == runs' = RemoveAt(runs, i) /\ last'.op = "settle"

\* this step sends execution i's request to the secondary provider
SecondaryCalled(i) ==
  /\ Len(runs') = Len(runs)
  /\ runs[i].phase # "fallback"
  /\ runs'[i].phase = "fallback"

\* this step ends execution i's use of the primary provider with a result
PrimaryReturned(i) ==
  runs[i].phase = "primary" /\ Left(i) /\ last'.primary # <<>>

\* this step ends execution i's use of the primary provider without one
PrimaryFailed(i) ==
  /\ runs[i].phase = "primary"
  /\ \/ SecondaryCalled(i)
     \/ Left(i) /\ last'.primary = <<>>

\* C28: the secondary provider is called, with the same coordinates,
\* exactly when the primary provider failed, for any reason, and never when
\* it returned a result; a result of the secondary provider has accuracy
\* medium; the Unknown sentinel with accuracy low is the outcome only of an
\* execution in which both providers failed
C28_FallbackChainOrdered ==
  /\ [][ \A i \in 1..Len(runs) :
           /\ PrimaryFailed(i) <=> SecondaryCalled(i)
           /\ SecondaryCalled(i) => runs'[i].coords = runs[i].coords
           /\ PrimaryReturned(i) => ~SecondaryCalled(i)
           /\ (Left(i) /\ last'.cause = "" /\ Delivered' # <<>>
                 /\ Delivered'[1].cityInfo = UnknownCityInfo)
                => (runs[i].phase = "fallback" /\ last'.primary = <<>>
                      /\ last'.secondary = <<>>) ]_vars
  /\ [](Settled /\ last.secondary # <<>> =>
          Delivered # <<>> /\ Delivered[1].cityInfo.accuracy = "medium")


----------------------------------------------------------------------------
(* Update statistics: forced executions one at a time, a clock that moves
   between them, and a localStorage that may refuse a cache entry, so that
   successes and failures alternate in the history. *)

StatsRuns == 4

\* locationScheduler.ts:253: the index found by find(update =>
\* !update.success), 0 if none
RECURSIVE FindFailed(_, _)
FindFailed(history, k) ==
  IF k > Len(history) THEN 0
  ELSE IF ~history[k].success THEN k
  ELSE FindFailed(history, k + 1)

\* the index found by a search from the oldest record, 0 if none
RECURSIVE FindOldestSuccessful(_, _)
FindOldestSuccessful(history, k) ==
  IF k < 1 THEN 0
  ELSE IF history[k].success THEN k
  ELSE FindOldestSuccessful(history, k - 1)

\* mutant: the last successful update is looked up from the oldest record
getUpdateStatsOldestFirst ==
  LET history == lastUpdateHistory
      totalUpdates == Len(history)
      successfulUpdates ==
        Cardinality({k \in 1..Len(history) : history[k].success})
      lastSuccessful == FindOldestSuccessful(history, Len(history))
      lastFailed == FindFailed(history, 1)
  IN  [totalUpdates |-> totalUpdates,
       successfulUpdates |-> successfulUpdates,
       failedUpdates |-> totalUpdates - successfulUpdates,
       lastSuccessfulUpdate |->
         IF lastSuccessful = 0 THEN <<>>
         ELSE <<history[lastSuccessful].timestamp>>,
       lastFailedUpdate |->
         IF lastFailed = 0 THEN <<>> ELSE <<history[lastFailed].timestamp>>]

\* locationScheduler.ts:241-262: <<>> is undefined
getUpdateStats ==
  LET history == lastUpdateHistory
      totalUpdates == Len(history)
      successfulUpdates ==
        Cardinality({k \in 1..Len(history) : history[k].success})
      lastSuccessful == FindSuccessful(history, 1)
      lastFailed == FindFailed(history, 1)
  IN  [totalUpdates |-> totalUpdates,
       successfulUpdates |-> successfulUpdates,
       failedUpdates |-> totalUpdates - successfulUpdates,
       lastSuccessfulUpdate |->
         IF lastSuccessful = 0 THEN <<>>
         ELSE <<history[lastSuccessful].timestamp>>,
       lastFailedUpdate |->
         IF lastFailed = 0 THEN <<>> ELSE <<history[lastFailed].timestamp>>]

\* the hook reads the statistics (part_001:557); the task is observed with
\* the object returned
GetUpdateStats ==
  /\ last' = [Event("getUpdateStats") EXCEPT !.value = <<getUpdateStats>>]
  /\ UNCHANGED <<now, isActive, intervals, pending, onLocationUpdate,
                 onLocationError, lastUpdateHistory, locationUpdateHistory,
                 lastKnownLocation, isInitialized, runs, launched, timerSeq>>

StatsNext ==
  \/ runs = <<>> /\ ForceUpdateWithin(StatsRuns)
  \/ GetUpdateStats
  \/ \E t \in Instants : Tick(t)
  \/ \E i \in 1..Len(runs) : \E c \in Coordinates : PositionOk(i, c)
  \/ \E i \in 1..Len(runs) : PositionFail(i)
  \/ \E i \in 1..Len(runs) : \E result \in PrimaryResponses :
       \E stored \in BOOLEAN : PrimaryOkStoring(i, result, stored)

StatsSpec == Init /\ [][StatsNext]_vars

\* the indices of the records with the given outcome
RecordsWith(success) ==
  {k \in 1..Len(lastUpdateHistory) : lastUpdateHistory[k].success = success}

\* at is the timestamp of the most recent record with the given outcome,
\* and absent iff there is no such record
MostRecentOf(at, success) ==
  IF RecordsWith(success) = {} THEN at = <<>>
  ELSE /\ at # <<>>
       /\ \E k \in RecordsWith(success) :
            /\ at[1] = lastUpdateHistory[k].timestamp
            /\ \A j \in RecordsWith(success) : j >= k
       /\ \A j \in RecordsWith(success) :
            lastUpdateHistory[j].timestamp <= at[1]

\* C29: in every state the statistics are a function of the history: the
\* total is the number of records (at most maxHistorySize), successes and
\* failures are the numbers of records of each outcome and add up to the
\* total, the last success and the last failure are the timestamps of the
\* most recent record of that outcome, absent iff there is none; and a
\* call returns these statistics and changes nothing else
C29_StatsAreFunctionOfHistory ==
  /\ [](LET stats == getUpdateStats
        IN  /\ stats.totalUpdates = Len(lastUpdateHistory)
            /\ stats.totalUpdates <= maxHistorySize
            /\ stats.successfulUpdates = Cardinality(RecordsWith(TRUE))
            /\ stats.failedUpdates = Cardinality(RecordsWith(FALSE))
            /\ stats.successfulUpdates + stats.failedUpdates = stats.totalUpdates
            /\ MostRecentOf(stats.lastSuccessfulUpdate, TRUE)
            /\ MostRecentOf(stats.lastFailedUpdate, FALSE))
  /\ [][ last'.op = "getUpdateStats" =>
           /\ last'.value = <<getUpdateStats>>
           /\ UNCHANGED <<now, isActive, intervals, pending, onLocationUpdate,
                          onLocationError, lastUpdateHistory,
                          locationUpdateHistory, lastKnownLocation,
                          isInitialized, runs, launched, timerSeq>> ]_vars

\* the statistics were read from a history with a failure and two
\* successes recorded at different instants
C29_Witness ==
  /\ last.op = "getUpdateStats"
  /\ RecordsWith(FALSE) # {}
  /\ \E j, k \in RecordsWith(TRUE) :
       lastUpdateHistory[j].timestamp # lastUpdateHistory[k].timestamp


----------------------------------------------------------------------------
(* The persisted history and a process restart *)

RestartRuns == 2

\* locationScheduler.ts:175-188: the history a new scheduler starts with;
\* JSON.parse leaves every ISO string a string, and the map revives the
\* timestamp of each record only, not the one of its location
loadUpdateHistory(item) ==
  IF item = <<>> THEN <<>>
  ELSE [k \in 1..Len(item[1]) |->
          [item[1][k] EXCEPT !.timestamp = NewDate(@)]]

\* locationScheduler.ts:285, 32-34: the page is reloaded once the
\* executions of the bound are over; timers, callbacks and the geocoder go
\* with the old process, localStorage stays, and the module constructs the
\* scheduler again
RestartWithin(budget) ==
  /\ runs = <<>>
  /\ launched = budget
  /\ last.op # "restart"
  /\ isActive' = FALSE
  /\ intervals' = <<>>
  /\ pending' = {}
  /\ onLocationUpdate' = <<>>
  /\ onLocationError' = <<>>
  /\ isInitialized' = FALSE
  /\ lastUpdateHistory' = loadUpdateHistory(locationUpdateHistory)
  /\ last' = Event("restart")
  /\ UNCHANGED <<now, locationUpdateHistory, lastKnownLocation, runs,
                 launched, timerSeq>>

Restart == RestartWithin(RestartRuns)

RestartNext ==
  \/ \E cb \in Callbacks : StartWithin(cb, RestartRuns)
  \/ Stop
  \/ Restart
  \/ \E t \in DayMarks : Tick(t)
  \/ \E i \in 1..Len(runs) : \E c \in Coordinates : PositionOk(i, c)
  \/ \E i \in 1..Len(runs) : PositionFail(i)
  \/ \E i \in 1..Len(runs) : \E result \in PrimaryResponses : PrimaryOk(i, result)

RestartSpec == Init /\ [][RestartNext]_vars

\* two JavaScript values are deeply equal, types included
SameValue(a, b) == ToString(a) = ToString(b)

\* C30: whenever the history changes by a record, localStorage holds the
\* new history, and the change removes nothing but the record beyond the
\* maxHistorySize-th; a scheduler constructed after a restart holds exactly
\* the history that was in memory, and persisted, before it: same order,
\* outcomes, timestamps and snapshots
C30_HistorySurvivesRestart ==
  [][ IF last'.op = "restart"
        THEN SameValue(lastUpdateHistory', lastUpdateHistory)
        ELSE \/ lastUpdateHistory' = lastUpdateHistory
             \/ /\ lastUpdateHistory' # <<>>
                /\ lastUpdateHistory' =
                     Take(<<lastUpdateHistory'[1]>> \o lastUpdateHistory,
                          maxHistorySize)
                /\ locationUpdateHistory' =
                     saveUpdateHistory(lastUpdateHistory') ]_vars


----------------------------------------------------------------------------
(* The snapshot cache: forced executions one at a time with every outcome
   of the providers, a localStorage that may refuse the entry, a clock that
   moves between them, and a reload of the page at the end. *)

CacheRuns == 3

CacheNext ==
  \/ runs = <<>> /\ ForceUpdateWithin(CacheRuns)
  \/ RestartWithin(CacheRuns)
  \/ \E t \in Instants : Tick(t)
  \/ \E i \in 1..Len(runs) : \E c \in Coordinates : PositionOk(i, c)
  \/ \E i \in 1..Len(runs) : PositionFail(i)
  \/ \E i \in 1..Len(runs) : \E result \in PrimaryResponses :
       \E stored \in BOOLEAN : PrimaryOkStoring(i, result, stored)
  \/ \E i \in 1..Len(runs) : PrimaryFail(i)
  \/ \E i \in 1..Len(runs) : \E address \in SecondaryResponses : SecondaryOk(i, address)
  \/ \E i \in 1..Len(runs) : SecondaryFail(i)

CacheSpec == Init /\ [][CacheNext]_vars

\* the execution that just ended called cacheLocation
Put == Settled /\ \E k \in 1..Len(last.effects) : last.effects[k] = "cacheLocation"

\* what getCachedLocation returns for an entry made of snapshot
AsCached(snapshot) == << [snapshot EXCEPT !.source = "cached"] >>

\* C31 as stated: after every cacheLocation(s) getCachedLocation returns
\* s's coordinates, cityInfo and timestamp with source cached, whatever the
\* cache held before, and a restart leaves what it returns unchanged
C31_GetAfterPutReturnsPut ==
  [][ /\ Put' => getCachedLocation' = AsCached(Delivered'[1])
      /\ last'.op = "restart" => getCachedLocation' = getCachedLocation ]_vars

\* C31 amended: after every cacheLocation(s) getCachedLocation returns
\* either s's coordinates, cityInfo and timestamp with source cached, or,
\* when localStorage refused the write, exactly what it returned before;
\* never a mixture of the two; and a restart leaves what it returns
\* unchanged
C31_GetAfterPutReturnsPutOrPrevious ==
  [][ /\ Put' => \/ getCachedLocation' = AsCached(Delivered'[1])
                 \/ getCachedLocation' = getCachedLocation
      /\ last'.op = "restart" => getCachedLocation' = getCachedLocation ]_vars

\* cacheLocation replaced an entry of another city and another instant
C31_Witness ==
  /\ Put
  /\ last.cacheBefore # <<>>
  /\ getCachedLocation = AsCached(Delivered[1])
  /\ last.cacheBefore[1].cityInfo # Delivered[1].cityInfo
  /\ last.cacheBefore[1].timestamp # Delivered[1].timestamp


----------------------------------------------------------------------------
(* Failed acquisitions and the cache: executions one at a time, scheduled
   and forced, over a day in which a live success is followed by failures. *)

FallbackRuns == 3

FallbackNext ==
  \/ \E cb \in Callbacks : runs = <<>> /\ StartWithin(cb, FallbackRuns)
  \/ Stop
  \/ \E h \in pending : runs = <<>> /\ SlotFireWithin(h, FallbackRuns)
  \/ runs = <<>> /\ ForceUpdateWithin(FallbackRuns)
  \/ \E t \in Instants : Tick(t)
  \/ \E i \in 1..Len(runs) : \E c \in Coordinates : PositionOk(i, c)
  \/ \E i \in 1..Len(runs) : PositionFail(i)
  \/ \E i \in 1..Len(runs) : \E result \in PrimaryResponses : PrimaryOk(i, result)

FallbackSpec == Init /\ [][FallbackNext]_vars

\* the execution that just ended served the cached snapshot
ServedFallback == Settled /\ LiveFailed /\ ~TerminalError

\* C32: an execution whose live acquisition failed, scheduled or forced,
\* ended in the fallback or in the error, leaves the cache entry as it was,
\* timestamp included; so a scheduled fallback is served only within the
\* freshness window counted from the instant of the entry, however many
\* fallbacks were served in between
C32_FailedRunLeavesCache ==
  /\ (Settled /\ LiveFailed) => getCachedLocation = last.cacheBefore
  /\ (ServedFallback /\ last.kind = "scheduled") =>
        /\ getCachedLocation # <<>>
        /\ now - getCachedLocation[1].timestamp < FreshWindow
        /\ Delivered[1].timestamp = now

\* a second fallback in a row was served, and the cache entry is still
\* older than both
C32_Witness ==
  /\ ServedFallback /\ last.kind = "scheduled"
  /\ Len(lastUpdateHistory) >= 3
  /\ lastUpdateHistory[2].success
  /\ lastUpdateHistory[2].location[1].source = "cached"
  /\ lastUpdateHistory[2].location[1].timestamp > getCachedLocation[1].timestamp
  /\ Delivered[1].timestamp > getCachedLocation[1].timestamp


----------------------------------------------------------------------------
(* The cache under concurrent executions: up to two executions in flight
   together, launched by start, by the timers and by forceUpdate. *)

RaceRuns == 3

RaceNext ==
  \/ \E cb \in Callbacks : Len(runs) <= 1 /\ StartWithin(cb, RaceRuns)
  \/ \E h \in pending : Len(runs) <= 1 /\ SlotFireWithin(h, RaceRuns)
  \/ Len(runs) <= 1 /\ ForceUpdateWithin(RaceRuns)
  \/ \E t \in Instants : Tick(t)
  \/ \E i \in 1..Len(runs) : \E c \in Coordinates : PositionOk(i, c)
  \/ \E i \in 1..Len(runs) : PositionFail(i)
  \/ \E i \in 1..Len(runs) : \E result \in PrimaryResponses : PrimaryOk(i, result)

RaceSpec == Init /\ [][RaceNext]_vars

----------------------------------------------------------------------------
(* The Initial execution of start() *)

\* this step is a start() that found the scheduler idle
Activated == ~isActive /\ isActive'

\* C34: a start() that finds the scheduler idle arms a timer for every slot
\* and, in the same step and at the same instant, launches exactly one
\* execution, labelled Initial, whose position request is under way; a
\* start() that finds it active launches none
C34_StartLaunchesInitial ==
  [][ /\ Activated =>
           /\ runs' = Append(runs, NewRun("scheduled", "Initial"))
           /\ now' = now
           /\ \A k \in 1..Len(scheduledTimes) :
                \E h \in pending' \ pending : h.slot = k /\ h.at > now
      /\ last'.op = "start" => runs' = runs ]_vars

\* stop() then start() while the first Initial execution was unfinished:
\* two Initial executions are in flight
C34_Witness ==
  /\ isActive
  /\ Len(runs) = 2
  /\ \A i \in 1..Len(runs) : runs[i].label = "Initial"


----------------------------------------------------------------------------
(* The callbacks an execution delivers to: start() with either of two
   callbacks, stop(), and forceUpdate(), with executions in flight across
   them. *)

DeliverRuns == 2

DeliverNext ==
  \/ \E cb \in StartCallbacks : StartWithin(cb, DeliverRuns)
  \/ Stop
  \/ ForceUpdateWithin(DeliverRuns)
  \/ \E i \in 1..Len(runs) : \E c \in Coordinates : PositionOk(i, c)
  \/ \E i \in 1..Len(runs) : PositionFail(i)
  \/ \E i \in 1..Len(runs) : \E result \in PrimaryResponses : PrimaryOk(i, result)

DeliverSpec == Init /\ [][DeliverNext]_vars

\* this step ends an execution
Completes == last'.op = "settle"

\* C35: an execution that ends while callbacks are registered delivers its
\* outcome, by one call, to the callback registered at that moment, be the
\* scheduler active or idle, and whichever callback was registered when the
\* execution began
C35_DeliversToCurrentCallbacks ==
  [][ (Completes /\ onLocationUpdate # <<>>) =>
        /\ Len(last'.calls) = 1
        /\ last'.calls[1].cb =
             IF last'.calls[1].fn = "onLocationUpdate"
               THEN onLocationUpdate[1] ELSE onLocationError[1] ]_vars


----------------------------------------------------------------------------
(* Re-arming does not wait for the execution *)

\* C36: the step in which a slot's timer fires launches the slot's
\* execution, arms the slot's next timer and delivers no callback, the
\* execution being still in flight after it; and while the scheduler is
\* active every slot has a pending timer whatever the executions in flight
\* are doing, so that an execution that is slow or never ends neither
\* delays nor prevents the next fire
C36_RearmDoesNotWaitForRun ==
  /\ [][ FireStep =>
           \A h \in Fired :
             /\ \E r \in Armed : r.slot = h.slot /\ r.at > now
             /\ runs' = Append(runs, NewRun("scheduled", scheduledTimes[h.slot].label))
             /\ last' = NoEvent ]_vars
  /\ [](isActive => \A k \in 1..Len(scheduledTimes) :
                      \E h \in pending : h.slot = k)

\* a slot fired again, a day later, while the execution of its previous
\* fire was still in flight, and is armed for the day after
C36_Witness ==
  /\ isActive
  /\ Len(runs) = 2
  /\ runs[1].label \in SlotLabels
  /\ runs[2].label = runs[1].label
  /\ \E h \in pending :
       scheduledTimes[h.slot].label = runs[1].label /\ h.at > now


----------------------------------------------------------------------------
(* The next update times and the pending timers: start, stop, the timers
   and a clock that may run past a timer's instant before the timer's
   callback runs (a device that slept), with reads of the next times. *)

SlotsRuns == 3

\* the hook reads the next update times; the task is observed with the
\* list returned
GetNextUpdateTimes ==
  /\ last' = [Event("getNextUpdateTimes") EXCEPT !.value = <<getNextUpdateTimes>>]
  /\ UNCHANGED <<now, isActive, intervals, pending, onLocationUpdate,
                 onLocationError, lastUpdateHistory, locationUpdateHistory,
                 lastKnownLocation, isInitialized, runs, launched, timerSeq>>

SlotsNext ==
  \/ \E cb \in Callbacks : StartWithin(cb, SlotsRuns)
  \/ Stop
  \/ \E h \in pending : SlotFireWithin(h, SlotsRuns)
  \/ \E t \in RearmInstants : Tick(t)
  \/ GetNextUpdateTimes

SlotsSpec == Init /\ [][SlotsNext]_vars

\* a read of the next update times returns them and changes nothing else
ReadsLeaveState ==
  [][ last'.op = "getNextUpdateTimes" =>
        /\ last'.value = <<getNextUpdateTimes>>
        /\ UNCHANGED <<now, isActive, intervals, pending, onLocationUpdate,
                       onLocationError, lastUpdateHistory,
                       locationUpdateHistory, lastKnownLocation,
                       isInitialized, runs, launched, timerSeq>> ]_vars

\* C37 as stated: while the scheduler is active the instant
\* getNextUpdateTimes returns for a slot is the instant of the slot's
\* pending timer, in every state; and a read changes no state
C37_NextTimeIsPendingTimer ==
  /\ [](isActive =>
          \A k \in 1..Len(scheduledTimes) :
            \E h \in pending :
              /\ h.slot = k
              /\ getNextUpdateTimes[k].time = h.at)
  /\ ReadsLeaveState

\* C37 amended: while the scheduler is active every slot has one pending
\* timer; the instant getNextUpdateTimes returns for the slot is the
\* instant of that timer as long as the timer is not due, and, from the
\* instant the timer is due until its callback has run, a later occurrence
\* of the slot, whole days after the timer's instant; a read changes no
\* state
C37_NextTimeIsPendingTimerUnlessDue ==
  /\ [](isActive =>
          \A k \in 1..Len(scheduledTimes) :
            \E h \in pending :
              /\ h.slot = k
              /\ \A g \in pending : g.slot = k => g = h
              /\ LET next == getNextUpdateTimes[k].time
                 IN  IF h.at > now THEN next = h.at
                     ELSE /\ next > h.at
                          /\ (next - h.at) % DayMinutes = 0)
  /\ ReadsLeaveState

\* the next times were read after a slot had fired and been armed again:
\* the time returned for it is that of the new timer
C37_Witness ==
  /\ isActive
  /\ last.op = "getNextUpdateTimes"
  /\ \E h \in pending :
       /\ h.id > Len(scheduledTimes)
       /\ h.at > now
       /\ last.value[1][h.slot].time = h.at


----------------------------------------------------------------------------
(* The retained timer handles *)

\* C38: the handles the scheduler retains are handles of pending timers,
\* and there are never more of them than configured slots, however many
\* times the slots have fired since start()
C38_RetainsOnlyPendingHandles ==
  /\ Range(intervals) \subseteq pending
  /\ Len(intervals) <= Len(scheduledTimes)

====
